---- MODULE Spec2Model ----
(***************************************************************************)
(* Model of src/Array.py: the Python class Array, a ctypes wrapper around  *)
(* a C array engine (libtest.so).  The wrapper's methods are translated    *)
(* from the source; the C functions it calls through lib are not part of   *)
(* the source tree and are modelled from the specification's contract of   *)
(* the storage engine (spec.md sections 3, 4 and 6).                       *)
(***************************************************************************)
EXTENDS Integers, Sequences, FiniteSets, TLC

\* Longest container the model builds, by initializer or by append/insert.
MaxLen == 3
\* Most buffers (lib.initArray calls) one run of the program makes.
MaxAllocs == 3
\* Longest container handed to the binary search.
MaxSearchLen == 4
\* The bound of Array.__overflow_error_handler: arg > 2147483647.
LONG_MAX == 2147483647
\* The default of pop's parameter: pop(self, pos: int = -1).
pop_default == -1

(***************************************************************************)
(* Python numbers.  A Python int is unbounded and 2147483648 is beyond     *)
(* the integers TLC computes with, so a number is held as two limbs: its   *)
(* value is hi * (LONG_MAX + 1) + lo with 0 <= lo <= LONG_MAX.  ty is the  *)
(* Python type ("int" or "float"); comparisons are numeric and ignore it,  *)
(* as Python's are (1 == 1.0).                                             *)
(***************************************************************************)
Num(ty, hi, lo) == [ty |-> ty, hi |-> hi, lo |-> lo]

NumGt(a, b) == a.hi > b.hi \/ (a.hi = b.hi /\ a.lo > b.lo)

NumLt(a, b) == NumGt(b, a)

NumEq(a, b) == a.hi = b.hi /\ a.lo = b.lo

\* The value a method returns when it returns nothing.
None == Num("none", 0, 0)

Int1 == Num("int", 0, 1)

IntMax == Num("int", 0, LONG_MAX)

\* 2147483648, the first int the overflow check rejects.
IntOver == Num("int", 1, 0)

Float1 == Num("float", 0, 1)

\* 2147483648.0
FloatOver == Num("float", 1, 0)

\* The arguments the methods are called with.
Values == {Int1, IntMax, IntOver, Float1, FloatOver}

\* All sequences over S of length at most n.
SeqsUpTo(S, n) == UNION {[1..k -> S] : k \in 0..n}

(***************************************************************************)
(* ctypes argument conversion (the argtypes set in Array.__init__).        *)
(* c_long accepts a Python int only (a float raises ctypes.ArgumentError)  *)
(* and keeps its value: c_long is 64 bits wide on the LP64 platform the    *)
(* library path names, and every int of Values is far inside that range.   *)
(* c_double accepts int and float and yields a double.                     *)
(***************************************************************************)
c_long_ok(v) == v.ty = "int"

c_long(v) == Num("int", v.hi, v.lo)

c_double(v) == Num("float", v.hi, v.lo)

(***************************************************************************)
(* The C storage engine behind lib, modelled from the specification.       *)
(* A CArray is modelled by the sequence of its occupied slots (slot k of   *)
(* the engine is element k + 1 of the sequence; used = Len); the slots     *)
(* between used and size are never read and the growth policy is left to   *)
(* the engine, so the capacity is not part of the state.  A structural     *)
(* operation reads a source array and fills a fresh destination array.     *)
(* Each operation reports the slots of the source it reads or writes.      *)
(***************************************************************************)
\* spec 4.2 checkIndex: a negative index counts from the end.
NormIndex(len, pos) == IF pos < 0 THEN len + pos ELSE pos

\* spec 4.2 checkIndex: the container is not empty and pos is in [-len, len).
IndexOk(len, pos) == len > 0 /\ pos >= -len /\ pos < len

\* spec 4.3 insertAt: the insertion range also allows pos = len.
InsertIndexOk(len, pos) == pos >= -len /\ pos <= len

getArrayLength(a) == Len(a)

\* lib.returnLong / lib.returnDouble (lib.returnType gives the slot's kind:
\* "int" for et_long, "float" for et_dbl).  Outside the bounds the read is
\* of memory the container does not own: the model returns None for it.
returnValue(a, pos) ==
    LET k == NormIndex(Len(a), pos)
    IN  [val |-> IF k >= 0 /\ k < Len(a) THEN a[k + 1] ELSE None, slots |-> {k}]

\* lib.insertLong / lib.insertDouble: append, growing the buffer if needed.
insertValue(a, v) == Append(a, v)

\* lib.insertLongToPos / lib.insertDoubleToPos: overwrite one slot in place.
insertValueToPos(a, v, key) ==
    LET k == NormIndex(Len(a), key)
    IN  [arr |-> IF k >= 0 /\ k < Len(a) THEN [a EXCEPT ![k + 1] = v] ELSE a,
         slots |-> {k}]

\* lib.insertLongAtPos / lib.insertDoubleAtPos: dst becomes src with v
\* spliced in at pos; on a bad pos nothing is done and dst stays as
\* initArray left it (empty).
insertValueAtPos(src, v, pos) ==
    LET k == NormIndex(Len(src), pos)
    IN  IF InsertIndexOk(Len(src), pos)
        THEN [ok |-> TRUE,
              dst |-> SubSeq(src, 1, k) \o <<v>> \o SubSeq(src, k + 1, Len(src)),
              slots |-> 0..(Len(src) - 1)]
        ELSE [ok |-> FALSE, dst |-> <<>>, slots |-> {}]

\* lib.popLong / lib.popDouble: the PopResult (resultCode, result) and dst,
\* which becomes src without the slot at pos; resultCode 0 on a bad pos.
popValue(src, pos) ==
    LET k == NormIndex(Len(src), pos)
    IN  IF IndexOk(Len(src), pos)
        THEN [resultCode |-> 1, result |-> src[k + 1],
              dst |-> SubSeq(src, 1, k) \o SubSeq(src, k + 2, Len(src)),
              slots |-> 0..(Len(src) - 1)]
        ELSE [resultCode |-> 0, result |-> None, dst |-> <<>>, slots |-> {}]

\* The lowest slot of a holding v, by a linear scan from slot 0; -1 if none.
RECURSIVE firstIndexOf(_, _, _)
firstIndexOf(a, v, k) ==
    IF k >= Len(a) THEN -1
    ELSE IF a[k + 1] = v THEN k
    ELSE firstIndexOf(a, v, k + 1)

\* lib.removeLong / lib.removeDouble: dst becomes src without the first
\* occurrence of v (result code 0); result code -1 when v is absent.
removeValue(src, v) ==
    LET k == firstIndexOf(src, v, 0)
    IN  IF k = -1
        THEN [res |-> -1, dst |-> <<>>, slots |-> 0..(Len(src) - 1)]
        ELSE [res |-> 0,
              dst |-> SubSeq(src, 1, k) \o SubSeq(src, k + 2, Len(src)),
              slots |-> 0..(Len(src) - 1)]

\* spec 4.4: halve the interval [low, high) around the midpoint; steps
\* counts the halvings made so far.
RECURSIVE bsearch(_, _, _, _, _)
bsearch(a, target, low, high, steps) ==
    IF low >= high THEN [pos |-> -1, steps |-> steps]
    ELSE LET mid == low + ((high - low) \div 2)
         IN  IF NumEq(a[mid + 1], target) THEN [pos |-> mid, steps |-> steps + 1]
             ELSE IF NumLt(target, a[mid + 1])
                  THEN bsearch(a, target, low, mid, steps + 1)
                  ELSE bsearch(a, target, mid + 1, high, steps + 1)

\* lib.binarySearchLong / lib.binarySearchDouble: the index found, or -1.
binarySearch(a, target) == bsearch(a, target, 0, Len(a), 0)

(***************************************************************************)
(* The methods of class Array.  Each is a function of the typecode, the    *)
(* contents a of self.array and the arguments, and yields the outcome of   *)
(* the call:                                                               *)
(*   err    the exception raised, "none" when the method returns           *)
(*   ret    the number returned (None when nothing is)                     *)
(*   idx    the index search returns, flag the boolean __eq__ returns      *)
(*   arr    the contents of the buffer self.array names after the call     *)
(*   alloc  a CArray temp was given a buffer by lib.initArray              *)
(*   free   self.__free() was called on the old self.array                 *)
(*   swap   self.array = temp was executed                                 *)
(*   engine whether the engine carried the request out                     *)
(*   slots  the slots of self.array the engine was asked to touch          *)
(*   steps  the halvings the binary search made                            *)
(***************************************************************************)
Outcome(err, ret, arr, slots) ==
    [err |-> err, ret |-> ret, idx |-> -1, flag |-> FALSE, arr |-> arr,
     alloc |-> FALSE, free |-> FALSE, swap |-> FALSE, engine |-> err = "none",
     slots |-> slots, steps |-> 0]

\* Array.__index_error_handler (the mutant drops the lower bound).
index_error_handler_no_lower(len, pos) ==
    IF len = 0 THEN "IndexError"
    ELSE IF pos >= len THEN "IndexError"
    ELSE "none"

index_error_handler(len, pos) ==
    IF len = 0 THEN "IndexError"
    ELSE IF (pos < -len) \/ (pos >= len) THEN "IndexError"
    ELSE "none"

\* Array.__overflow_error_handler
overflow_error_handler(arg) ==
    IF NumGt(arg, Num("int", 0, LONG_MAX)) THEN "OverflowError" ELSE "none"

\* Array.__getitem__
getitem(tc, a, pos) ==
    LET e == index_error_handler(getArrayLength(a), pos)
        r == returnValue(a, pos)
    IN  IF e # "none" THEN Outcome(e, None, a, {})
        ELSE IF r.val.ty \in {"int", "float"} THEN Outcome("none", r.val, a, r.slots)
        ELSE Outcome("ValueError", None, a, r.slots)

\* Array.__setitem__
setitem(tc, a, key, value) ==
    LET e == index_error_handler(getArrayLength(a), key)
        o == overflow_error_handler(value)
        r == insertValueToPos(a, IF tc = "i" THEN c_long(value) ELSE c_double(value),
                              key)
    IN  IF e # "none" THEN Outcome(e, None, a, {})
        ELSE IF o # "none" THEN Outcome(o, None, a, {})
        ELSE IF tc = "i" /\ ~c_long_ok(value) THEN Outcome("ArgumentError", None, a, {})
        ELSE Outcome("none", None, r.arr, r.slots)

\* Array.__insert_long
insert_long(a, arg) ==
    LET o == overflow_error_handler(arg)
    IN  IF o # "none" THEN Outcome(o, None, a, {})
        ELSE Outcome("none", None, insertValue(a, c_long(arg)), {Len(a)})

\* Array.__insert_double
insert_double(a, arg) == Outcome("none", None, insertValue(a, c_double(arg)), {Len(a)})

\* Array.append, for the typecodes "i" and "d" (every value of the model is
\* an int or a float, so the isinstance test of the "d" branch holds).
append(tc, a, arg) ==
    IF tc = "i"
    THEN IF arg.ty = "int" THEN insert_long(a, arg)
         ELSE Outcome("TypeError", None, a, {})
    ELSE insert_double(a, arg)

\* The statements of a structural method after its engine call.
\* Array.insert, lines 370-371: free the old buffer and adopt temp, always.
\* Array.pop, lines 237-241: free and adopt only when resultCode is set.
\* Array.remove, lines 308-311: free and adopt unless the engine said -1.
Structural(err, ret, a, dst, adopt, engine, slots) ==
    [err |-> err, ret |-> ret, idx |-> -1, flag |-> FALSE,
     arr |-> IF adopt THEN dst ELSE a,
     alloc |-> TRUE, free |-> adopt, swap |-> adopt, engine |-> engine,
     slots |-> slots, steps |-> 0]

\* The engine call of Array.insert (the mutant passes the position and the
\* length-relative position mixed up: it inserts one slot too far).
insert_call_shifted(tc, a, pos, arg) ==
    insertValueAtPos(a, IF tc = "i" THEN c_long(arg) ELSE c_double(arg), pos + 1)

insert_call(tc, a, pos, arg) ==
    insertValueAtPos(a, IF tc = "i" THEN c_long(arg) ELSE c_double(arg), pos)

\* Array.insert: no index check, no overflow check, no look at what the
\* engine answered.
insert(tc, a, pos, arg) ==
    LET r == insert_call(tc, a, pos, arg)
    IN  IF tc = "i" /\ ~c_long_ok(arg)
        THEN Structural("ArgumentError", None, a, <<>>, FALSE, FALSE, {})
        ELSE Structural("none", None, a, r.dst, TRUE, r.ok, r.slots)

\* The engine call of Array.pop (the mutant reads the default -1 as "the
\* slot before pos").
pop_call_before(tc, a, pos) == popValue(a, pos - 1)

pop_call(tc, a, pos) == popValue(a, pos)

\* Array.pop
pop(tc, a, pos) ==
    LET result == pop_call(tc, a, pos)
    IN  IF result.resultCode # 0
        THEN Structural("none", result.result, a, result.dst, TRUE, TRUE, result.slots)
        ELSE Structural("IndexError", None, a, <<>>, FALSE, FALSE, result.slots)

\* Array.remove
remove(tc, a, value) ==
    LET r == removeValue(a, IF tc = "i" THEN c_long(value) ELSE c_double(value))
    IN  IF tc = "i" /\ ~c_long_ok(value)
        THEN Structural("ArgumentError", None, a, <<>>, FALSE, FALSE, {})
        ELSE IF r.res = -1
        THEN Structural("ValueError", None, a, <<>>, FALSE, FALSE, r.slots)
        ELSE Structural("none", None, a, r.dst, TRUE, TRUE, r.slots)

\* The test of Array.search on the engine's answer, line 264 (the mutant
\* tests the answer for falsity, "if not pos").
search_not_found_falsy(pos) == pos = -1 \/ pos = 0

search_not_found(pos) == pos = -1

\* Array.search
search(tc, a, arg) ==
    LET r == binarySearch(a, IF tc = "i" THEN c_long(arg) ELSE c_double(arg))
    IN  IF tc = "i" /\ ~c_long_ok(arg) THEN Outcome("ArgumentError", None, a, {})
        ELSE IF search_not_found(r.pos)
        THEN [Outcome("ValueError", None, a, {}) EXCEPT !.steps = r.steps]
        ELSE [Outcome("none", None, a, {}) EXCEPT !.idx = r.pos, !.steps = r.steps]

\* Array.__eq__: the loop over range(len(self)), from index i on.  other is
\* a Python sequence: other[i] raises IndexError for i >= len(other).
RECURSIVE eq_loop(_, _, _, _)
eq_loop(tc, a, other, i) ==
    IF i >= getArrayLength(a) THEN [Outcome("none", None, a, {}) EXCEPT !.flag = TRUE]
    ELSE IF getitem(tc, a, i).err # "none" THEN getitem(tc, a, i)
    ELSE IF i >= Len(other) THEN Outcome("IndexError", None, a, {i})
    ELSE IF ~NumEq(getitem(tc, a, i).ret, other[i + 1])
         THEN [Outcome("none", None, a, {}) EXCEPT !.flag = FALSE]
    ELSE eq_loop(tc, a, other, i + 1)

eq(tc, a, other) == eq_loop(tc, a, other, 0)

\* Array.__init__ with an initializer: one append per element; the
\* construction raises what the first failing append raises.
RECURSIVE construct(_, _, _)
construct(tc, initializer, a) ==
    IF initializer = <<>> THEN Outcome("none", None, a, {})
    ELSE IF append(tc, a, Head(initializer)).err # "none"
         THEN append(tc, a, Head(initializer))
    ELSE construct(tc, Tail(initializer), append(tc, a, Head(initializer)).arr)

(***************************************************************************)
(* The state of one Array object and of the C heap it allocates from.      *)
(***************************************************************************)
VARIABLES
    typecode,   \* self.typecode: "i" (long) or "d" (double)
    array,      \* self.array: the buffer the object's CArray names
    items,      \* the occupied slots of that buffer
    heap,       \* per buffer: st ("none", "live", "freed") and rel, the
                \* number of lib.freeArray calls made on it
    nalloc,     \* the number of lib.initArray calls made so far
    exited,     \* the interpreter has exited and run the atexit handlers
    last        \* the last call: its name, arguments and outcome, the
                \* contents (pre) and buffer (old) it started from, and
                \* whether that buffer was live when the engine was called

vars == <<typecode, array, items, heap, nalloc, exited, last>>

Buffers == 1..MaxAllocs

Positions == (-(MaxLen + 1))..(MaxLen + 1)

\* The sequences __eq__ is compared with.
Others == SeqsUpTo({Int1, IntMax}, MaxLen + 1)

\* lib.initArray on a fresh CArray: buffer b is allocated.
initArray(h, b) == [h EXCEPT ![b] = [st |-> "live", rel |-> 0]]

\* lib.freeArray, called by Array.__free.
freeArray(h, b) == [h EXCEPT ![b] = [st |-> "freed", rel |-> h[b].rel + 1]]

Call(op, pos, arg, other, out) ==
    [op |-> op, pos |-> pos, arg |-> arg, other |-> other, pre |-> items,
     old |-> array, live |-> heap[array].st = "live",
     err |-> out.err, ret |-> out.ret, idx |-> out.idx, flag |-> out.flag,
     engine |-> out.engine, slots |-> out.slots, steps |-> out.steps]

\* The effect of a call with outcome out on the object and the heap.
Apply(op, pos, arg, other, out) ==
    LET temp == nalloc + 1
        h1 == IF out.alloc THEN initArray(heap, temp) ELSE heap
    IN  /\ heap' = IF out.free THEN freeArray(h1, array) ELSE h1
        /\ nalloc' = IF out.alloc THEN temp ELSE nalloc
        /\ array' = IF out.swap THEN temp ELSE array
        /\ items' = out.arr
        /\ last' = Call(op, pos, arg, other, out)
        /\ UNCHANGED <<typecode, exited>>

\* Array(typecode, initializer) has returned: the buffer is allocated, the
\* initializer appended and Array.__free registered with atexit.
Constructed(maxlen) ==
    /\ typecode \in {"i", "d"}
    /\ \E initializer \in SeqsUpTo(Values, maxlen) :
          /\ construct(typecode, initializer, <<>>).err = "none"
          /\ items = construct(typecode, initializer, <<>>).arr
    /\ array = 1
    /\ heap = initArray([b \in Buffers |-> [st |-> "none", rel |-> 0]], 1)
    /\ nalloc = 1
    /\ exited = FALSE
    /\ last = [op |-> "init", pos |-> 0, arg |-> None, other |-> <<>>, pre |-> <<>>,
               old |-> 1, live |-> TRUE, err |-> "none", ret |-> None, idx |-> -1,
               flag |-> FALSE, engine |-> TRUE, slots |-> {}, steps |-> 0]

Init == Constructed(MaxLen)

CallAppend ==
    /\ ~exited /\ Len(items) < MaxLen
    /\ \E arg \in Values : Apply("append", 0, arg, <<>>, append(typecode, items, arg))

CallGetItem ==
    /\ ~exited
    /\ \E pos \in Positions : Apply("getitem", pos, None, <<>>, getitem(typecode, items, pos))

CallSetItem ==
    /\ ~exited
    /\ \E key \in Positions, value \in Values :
          Apply("setitem", key, value, <<>>, setitem(typecode, items, key, value))

CallInsert ==
    /\ ~exited /\ Len(items) < MaxLen /\ nalloc < MaxAllocs
    /\ \E pos \in Positions, arg \in Values :
          Apply("insert", pos, arg, <<>>, insert(typecode, items, pos, arg))

CallPop ==
    /\ ~exited /\ nalloc < MaxAllocs
    /\ \E pos \in Positions \cup {pop_default} :
          Apply("pop", pos, None, <<>>, pop(typecode, items, pos))

CallRemove ==
    /\ ~exited /\ nalloc < MaxAllocs
    /\ \E value \in Values : Apply("remove", 0, value, <<>>, remove(typecode, items, value))

\* Interpreter exit: atexit runs the registered Array.__free once.
AtExit ==
    /\ ~exited
    /\ exited' = TRUE
    /\ heap' = freeArray(heap, array)
    /\ last' = Call("exit", 0, None, <<>>, Outcome("none", None, items, {}))
    /\ UNCHANGED <<typecode, array, items, nalloc>>

Next ==
    CallAppend \/ CallGetItem \/ CallSetItem \/ CallPop \/ CallRemove \/ CallInsert \/ AtExit

Spec == Init /\ [][Next]_vars

\* Searching: containers of up to MaxSearchLen elements, sorted or not.
InitSearch == Constructed(MaxSearchLen)

CallSearch ==
    /\ ~exited
    /\ \E arg \in Values :
          /\ Apply("search", 0, arg, <<>>, search(typecode, items, arg))

SpecSearch == InitSearch /\ [][CallSearch]_vars

\* Comparing: a container against every sequence of Others.
CallEq ==
    /\ ~exited
    /\ \E other \in Others : Apply("eq", 0, None, other, eq(typecode, items, other))

SpecEq == Init /\ [][CallEq]_vars

(***************************************************************************)
(* Properties.  Each is stated on the record of the last call: the         *)
(* contents before it (last.pre), its arguments and its outcome, against   *)
(* the contents after it (items).                                          *)
(***************************************************************************)
\* The element as the container of kind tc stores it.
Stored(tc, v) == IF tc = "i" THEN c_long(v) ELSE c_double(v)

\* v is of a Python type the container of kind tc takes.
Admissible(tc, v) == IF tc = "i" THEN v.ty = "int" ELSE v.ty \in {"int", "float"}

WithoutSlot(s, k) == SubSeq(s, 1, k) \o SubSeq(s, k + 2, Len(s))

WithSlot(s, k, v) == SubSeq(s, 1, k) \o <<v>> \o SubSeq(s, k + 1, Len(s))

Sorted(s) == \A i \in 1..(Len(s) - 1) : ~NumLt(s[i + 1], s[i])

Present(s, v) == \E i \in 1..Len(s) : NumEq(s[i], v)

Equivalent(s, o) == Len(s) = Len(o) /\ \A i \in 1..Len(s) : NumEq(s[i], o[i])

RECURSIVE Pow2(_)
Pow2(n) == IF n <= 0 THEN 1 ELSE 2 * Pow2(n - 1)

\* C1: a failed call is a no-op.  After append, setitem, getitem, insert,
\* pop or remove, if the call failed (the method raised, or the engine
\* reported the request as failed) the container holds the elements it
\* held before, and its buffer is live.
C1_FailedCallIsNoOp ==
    (/\ last.op \in {"append", "setitem", "getitem", "insert", "pop", "remove"}
     /\ (last.err # "none" \/ ~last.engine))
    => (/\ items = last.pre
        /\ heap[array].st = "live")

\* C2: a Long container never stores a value above 2147483647: append,
\* setitem and insert of an int above it raise OverflowError, and
\* 2147483647 itself is accepted by append.
C2_RejectedValuesNeverStored ==
    LET offered == \/ last.op = "append"
                   \/ last.op = "setitem" /\ IndexOk(Len(last.pre), last.pos)
                   \/ last.op = "insert" /\ InsertIndexOk(Len(last.pre), last.pos)
    IN  typecode = "i" =>
           (/\ \A i \in 1..Len(items) : ~NumGt(items[i], IntMax)
            /\ (offered /\ last.arg.ty = "int" /\ NumGt(last.arg, IntMax))
               => last.err = "OverflowError"
            /\ (last.op = "append" /\ last.arg = IntMax) => last.err = "none")

\* C3: every buffer is released exactly once by exit: no buffer is ever
\* released twice, the engine is only called on a live buffer, and once
\* the interpreter has exited every buffer allocated has been released.
C3_EveryBufferReleasedOnce ==
    /\ \A b \in Buffers : heap[b].rel <= 1
    /\ last.live
    /\ exited => \A b \in 1..nalloc : heap[b].rel = 1

\* C4: getitem, setitem and pop with an index outside [-length, length)
\* (any index, on an empty container) and insert with an index outside
\* [-length, length] raise IndexError, and the engine touches no slot.
C4_IndexValidatedFirst ==
    /\ (last.op \in {"getitem", "setitem", "pop"} /\ ~IndexOk(Len(last.pre), last.pos))
       => (last.err = "IndexError" /\ last.slots = {})
    /\ (last.op = "insert" /\ ~InsertIndexOk(Len(last.pre), last.pos))
       => (last.err = "IndexError" /\ last.slots = {})

C6_InsertSplices ==
    (/\ last.op = "insert"
     /\ last.pos >= 0 /\ last.pos <= Len(last.pre)
     /\ Admissible(typecode, last.arg))
    => (/\ last.err = "none"
        /\ items = WithSlot(last.pre, last.pos, Stored(typecode, last.arg))
        /\ Len(items) = Len(last.pre) + 1
        /\ array # last.old
        /\ heap[last.old].st = "freed" /\ heap[last.old].rel = 1
        /\ heap[array].st = "live")

C6_Witness ==
    /\ last.op = "insert" /\ last.pos = 1 /\ Len(last.pre) = 2 /\ last.err = "none"
    /\ last.pre[1] # last.pre[2] /\ items[2] # last.pre[1] /\ items[2] # last.pre[2]
    /\ items[1] = last.pre[1] /\ items[3] = last.pre[2]

\* C7: removal excises one element.  pop at a valid pos returns the
\* element of that slot and leaves the rest in order (pop without an
\* argument takes the last element); remove takes out the
\* lowest-index occurrence of the value; either shortens the container by
\* one.  remove of an absent value raises ValueError and changes nothing.
C7_RemovalExcisesOne ==
    LET n == Len(last.pre)
        v == Stored(typecode, last.arg)
        has == \E i \in 1..n : last.pre[i] = v
        first == CHOOSE i \in 1..n :
                    last.pre[i] = v /\ \A j \in 1..(i - 1) : last.pre[j] # v
    IN  /\ (last.op = "pop" /\ IndexOk(n, last.pos))
           => (/\ last.err = "none"
               /\ last.ret = last.pre[NormIndex(n, last.pos) + 1]
               /\ items = WithoutSlot(last.pre, NormIndex(n, last.pos))
               /\ Len(items) = n - 1)
        /\ (last.op = "pop" /\ last.pos = pop_default /\ n > 0)
           => (last.ret = last.pre[n] /\ items = SubSeq(last.pre, 1, n - 1))
        /\ (last.op = "remove" /\ Admissible(typecode, last.arg) /\ has)
           => (/\ last.err = "none"
               /\ items = WithoutSlot(last.pre, first - 1)
               /\ Len(items) = n - 1)
        /\ (last.op = "remove" /\ Admissible(typecode, last.arg) /\ ~has)
           => (/\ last.err = "ValueError"
               /\ items = last.pre
               /\ array = last.old)

C7_Witness ==
    /\ last.op = "remove" /\ last.err = "none" /\ Len(last.pre) = 3
    /\ last.pre[1] # last.pre[2] /\ last.pre[2] = last.pre[3]
    /\ Stored(typecode, last.arg) = last.pre[2]
    /\ items = <<last.pre[1], last.pre[3]>>

\* C8: binary search on a sorted container.  A target that is present is
\* found at an index in [0, length) holding it; an absent target (also on
\* an empty container) gives -1, which search raises as ValueError; the
\* container is unchanged; and a search of n elements ends within
\* floor(log2 n) + 1 halvings.
C8_BinarySearchSorted ==
    (/\ last.op = "search"
     /\ Sorted(last.pre)
     /\ Admissible(typecode, last.arg))
    => (/\ Present(last.pre, last.arg)
           => (/\ last.err = "none"
               /\ last.idx >= 0 /\ last.idx < Len(last.pre)
               /\ NumEq(last.pre[last.idx + 1], last.arg))
        /\ ~Present(last.pre, last.arg)
           => (last.err = "ValueError" /\ last.idx = -1)
        /\ items = last.pre /\ array = last.old
        /\ last.steps = 0 \/ Pow2(last.steps - 1) <= Len(last.pre))

C8_Witness ==
    /\ last.op = "search" /\ Sorted(last.pre) /\ Len(last.pre) = MaxSearchLen
    /\ NumLt(last.pre[1], last.pre[2])
    /\ last.err = "none" /\ last.idx = 0 /\ last.steps >= 2

\* C9: setitem/getitem round trip.  setitem at a valid index of a value
\* admissible for the kind (Long: an int up to 2147483647; Double: any
\* float) succeeds; getitem at that index then returns the value; the
\* length, the other slots and the buffer are unchanged.
C9_SetGetRoundTrip ==
    LET n == Len(last.pre)
        k == NormIndex(n, last.pos)
    IN  (/\ last.op = "setitem"
         /\ IndexOk(n, last.pos)
         /\ IF typecode = "i"
            THEN last.arg.ty = "int" /\ ~NumGt(last.arg, IntMax)
            ELSE last.arg.ty = "float")
        => (/\ last.err = "none"
            /\ NumEq(getitem(typecode, items, last.pos).ret, last.arg)
            /\ Len(items) = n
            /\ \A i \in 1..n : i # k + 1 => items[i] = last.pre[i]
            /\ array = last.old)

\* C10: __eq__ returns True exactly when the container and the other
\* sequence have the same length and equal elements, and never raises.
C10_EqDecidesEquivalence ==
    last.op = "eq" => (last.err = "none" /\ last.flag = Equivalent(last.pre, last.other))

====
